---- MODULE Spec2Model ----
(***************************************************************************)
(* Wagering backend: the odds-feed reconciliation (GET /api/bet/games),    *)
(* wager placement (POST /api/bet/place), automatic settlement             *)
(* (POST /api/admin/auto-resolve), manual settlement                       *)
(* (POST /api/admin/resolve-bet) and manual market creation                *)
(* (POST /api/admin/add-game), over the games / users / bets tables.       *)
(*                                                                         *)
(* Every `await pool.query(...)` is one atomic statement of the store; the *)
(* JavaScript between two awaits runs without interruption (one event      *)
(* loop).  An action below is therefore: the store executes the pending    *)
(* statement of request r, and r runs on to its next await or to its       *)
(* response.  Any statement may instead be rejected by the store, which    *)
(* throws into the handler's catch block.                                  *)
(*                                                                         *)
(* Coins, stakes and odds are integers (decimal odds 2.0 is 2).            *)
(* A nullable column or JavaScript value is a sequence of length 0 (NULL)  *)
(* or 1.  The result of a SELECT is the sequence `rows`.                   *)
(***************************************************************************)
EXTENDS Integers, Sequences, FiniteSets, TLC

\* ------------------------------------------------------------------ bounds
NumSlots == 2        \* requests in flight at once
MaxPlace == 2        \* POST /place requests per behaviour
MaxAuto == 2         \* POST /auto-resolve requests per behaviour
MaxResolve == 1      \* POST /resolve-bet requests per behaviour
MaxGames == 2        \* GET /games requests per behaviour
MaxAddGame == 1      \* POST /add-game requests per behaviour
MaxTicks == 2        \* clock advances per behaviour
MaxRequests == 3     \* requests per behaviour, all routes together
MaxSeqRequests == 4  \* the same, where requests run one at a time
MaxFaults == 1       \* fetches or statements that throw, per behaviour
MaxRefresh == 3      \* requests per behaviour, where only the market routes run
InitCoins == 3       \* every account's balance when the behaviour starts

\* ------------------------------------------------------------- constants
ODDS_SYNC_COOLDOWN_MS == 15 * 30 * 1000
StartTime == 1000000     \* Date.now() when the process starts (ms)
TickMs == 300000         \* one clock advance (ms)

Slots == 1..NumSlots
Users == {1}
UnknownUser == 9

\* ------------------------------------------------------- nullable values
Null == <<>>
Some(x) == <<x>>
IsNull(o) == o = <<>>
Val(o) == o[1]
\* JavaScript `!x` on a nullable number: null and 0 are falsy
Falsy(o) == IsNull(o) \/ Val(o) = 0

Max(a, b) == IF a >= b THEN a ELSE b

\* ------------------------------------------------- JavaScript Number(x)
\* Values as they arrive in a JSON body or a feed payload.
JNull == "<null>"
JUndefined == "<undefined>"
NumericLiterals ==
  [s \in {"-1", "0", "1", "2", "3", "4"} |->
     CASE s = "-1" -> 0 - 1
       [] s = "0" -> 0
       [] s = "1" -> 1
       [] s = "2" -> 2
       [] s = "3" -> 3
       [] s = "4" -> 4]
NaN == [nan |-> TRUE, v |-> 0]
Num(n) == [nan |-> FALSE, v |-> n]
\* Number(null) and Number("") are 0; Number(undefined) and Number("abc") are NaN
Number(x) ==
  IF x \in DOMAIN NumericLiterals THEN Num(NumericLiterals[x])
  ELSE IF x = JNull \/ x = "" THEN Num(0)
  ELSE NaN

\* String.prototype.toLowerCase on the outcome names the feed uses
ToLowerCase(s) ==
  CASE s = "Draw" -> "draw"
    [] s = "DRAW" -> "draw"
    [] s = "Red" -> "red"
    [] s = "Blue" -> "blue"
    [] OTHER -> s

\* ------------------------------------------------------- the odds feed
\* GET .../odds answers a list of events; each carries bookmakers, each
\* bookmaker a list of markets, each market a list of priced outcomes.
Out(n, p) == [name |-> n, price |-> p]
Mkt(k, outs) == [key |-> k, outcomes |-> outs]
Bm(mkts) == [markets |-> mkts]
OddsEvent(i, h, a, t, bms) ==
  [id |-> i, home_team |-> h, away_team |-> a, commence_time |-> t, bookmakers |-> bms]

\* Event 1 and event 2 are two fixtures of the same pairing (a replay): same
\* home and away side, different feed ids.
Ev1 ==
  OddsEvent("1", "Red", "Blue", Some("t1"),
    << Bm(<< Mkt("h2h", << Out("Red", 2), Out("Blue", 2) >>) >>),
       Bm(<< Mkt("spreads", << Out("Red", 4) >>),
             Mkt("h2h", << Out("Blue", 3), Out("Red", 1) >>) >>) >>)
\* event 1 again, later: the prices moved and a draw is quoted
Ev1Moved ==
  OddsEvent("1", "Red", "Blue", Some("t1"),
    << Bm(<< Mkt("h2h", << Out("Red", 3), Out("Blue", 2), Out("DRAW", 2) >>) >>) >>)
\* event 1 with no bookmaker quoting the away side
Ev1Unpriced ==
  OddsEvent("1", "Red", "Blue", Some("t1"),
    << Bm(<< Mkt("h2h", << Out("Red", 2) >>) >>) >>)
Ev2 ==
  OddsEvent("2", "Red", "Blue", Null,
    << Bm(<< Mkt("h2h", << Out("Red", 3), Out("Draw", 3), Out("Blue", 2) >>) >>) >>)

\* what one fetch of the odds endpoint may answer
OddsSnapshots ==
  { << >>,
    << Ev1, Ev2 >>,
    << Ev2 >>,
    << Ev1Moved, Ev2 >>,
    << Ev1Unpriced, Ev2 >>,
    << Ev1Unpriced >> }

\* ------------------------------------------------------ the scores feed
\* GET .../scores answers a list of results: id, completed, scores.
Score(n, s) == [name |-> n, score |-> s]
Result(i, c, sc) == [id |-> i, completed |-> c, scores |-> sc]

\* The final scores of the two fixtures: a feed reports one final score per
\* fixture, whichever request asks.  Two possible worlds.
FinalChoices ==
  { [e \in {"1", "2"} |->
       IF e = "1" THEN << Score("Red", "3"), Score("Blue", "1") >>
                  ELSE << Score("Red", "1"), Score("Blue", "1") >>],
    [e \in {"1", "2"} |->
       IF e = "1" THEN << Score("Red", "1"), Score("Blue", "2") >>
                  ELSE << Score("Blue", "0"), Score("Red", "2") >>] }

Done(f, e) == Result(e, TRUE, Some(f[e]))
NotDone(e) == Result(e, FALSE, Null)
\* completed, but the feed has no score list / lacks one side / a score that
\* is no number
NoScores(e) == Result(e, TRUE, Null)
OneSided(f, e) == Result(e, TRUE, Some(<< f[e][1] >>))
BadScore(f, e) == Result(e, TRUE, Some(<< f[e][1], Score(f[e][2].name, "abc") >>))

\* what one fetch of the scores endpoint may answer, in world f
ScoreBatches(f) ==
  { << >>,
    << Done(f, "1") >>,
    << Done(f, "2") >>,
    << Done(f, "1"), Done(f, "2") >>,
    << NotDone("1"), Done(f, "2") >>,
    << BadScore(f, "1"), Done(f, "2") >>,
    << OneSided(f, "1") >>,
    << NoScores("2"), Done(f, "1") >> }

\* -------------------------------------------------------- generic helpers
\* array.filter(pred) is SelectSeq.  array.find(pred) is the first of the
\* matches, as a nullable value: First(SelectSeq(array, pred))
First(m) == IF m = << >> THEN Null ELSE Some(m[1])

\* ------------------------------------------- reconciliation, pure parts
NoBest == [home |-> Null, draw |-> Null, away |-> Null]
\* BestOf keeping the price read last
LastOf(cur, price) == Some(price)
\* best == null ? out.price : Math.max(best, out.price)
BestOf(cur, price) == IF IsNull(cur) THEN Some(price) ELSE Some(Max(Val(cur), price))

\* one outcome of an h2h market: the home side, else the away side, else a
\* name that lower-cases to "draw"
TakeOutcome(best, out, home, away) ==
  IF out.name = home THEN [best EXCEPT !.home = BestOf(best.home, out.price)]
  ELSE IF out.name = away THEN [best EXCEPT !.away = BestOf(best.away, out.price)]
  ELSE IF ToLowerCase(out.name) = "draw"
    THEN [best EXCEPT !.draw = BestOf(best.draw, out.price)]
  ELSE best

RECURSIVE OverOutcomes(_, _, _, _)
OverOutcomes(outs, best, home, away) ==
  IF outs = << >> THEN best
  ELSE OverOutcomes(Tail(outs), TakeOutcome(best, Head(outs), home, away), home, away)

IsH2H(m) == m.key = "h2h"

\* the loop over ev.bookmakers: a bookmaker without an h2h market is passed over
RECURSIVE OverBookmakers(_, _, _, _)
OverBookmakers(bms, best, home, away) ==
  IF bms = << >> THEN best
  ELSE LET h2h == First(SelectSeq(Head(bms).markets, IsH2H)) IN
       OverBookmakers(Tail(bms),
         IF IsNull(h2h) THEN best ELSE OverOutcomes(Val(h2h).outcomes, best, home, away),
         home, away)

BestPrices(ev) == OverBookmakers(ev.bookmakers, NoBest, ev.home_team, ev.away_team)

\* if (!bestHome || !bestAway) { skippedNoOdds++; continue; }
Tradeable(ev) == ~Falsy(BestPrices(ev).home) /\ ~Falsy(BestPrices(ev).away)

ExternalId(evId) == "odds_" \o evId
GameName(home, away) == home \o " vs " \o away \o " (EFL Cup)"

\* the values bound to $1..$11 of the upsert; the row's id is the store's
UpsertValues(ev) ==
  LET b == BestPrices(ev) IN
  [external_id |-> Some(ExternalId(ev.id)),
   game_name |-> GameName(ev.home_team, ev.away_team),
   game_type |-> "soccer",
   odds |-> b.home,
   start_time |-> ev.commence_time,
   team1_name |-> Some(ev.home_team),
   team2_name |-> Some(ev.away_team),
   team1_odds |-> b.home,
   team2_odds |-> b.away,
   draw_odds |-> b.draw,
   has_draw |-> Some(~Falsy(b.draw))]

WithId(v, i) ==
  [id |-> i, external_id |-> v.external_id, game_name |-> v.game_name,
   game_type |-> v.game_type, odds |-> v.odds, start_time |-> v.start_time,
   team1_name |-> v.team1_name, team2_name |-> v.team2_name,
   team1_odds |-> v.team1_odds, team2_odds |-> v.team2_odds,
   draw_odds |-> v.draw_odds, has_draw |-> v.has_draw]

\* UpsertGame without the ON CONFLICT clause: every statement inserts
InsertGame(tbl, nextId, v) == tbl \cup { WithId(v, nextId) }

\* INSERT INTO games ... ON CONFLICT (external_id) DO UPDATE SET <all but the key>:
\* a row with the external id keeps its id and takes the new values; else a
\* new row takes the next id.
UpsertGame(tbl, nextId, v) ==
  IF \E g \in tbl : g.external_id = v.external_id
    THEN { IF g.external_id = v.external_id THEN WithId(v, g.id) ELSE g : g \in tbl }
    ELSE tbl \cup { WithId(v, nextId) }

InsertsRow(tbl, v) == ~ \E g \in tbl : g.external_id = v.external_id

\* external_id LIKE 'odds_%' over the ids this store can hold; NULL matches nothing
FeedIds == {"1", "2"}
LikeOdds(ext) == ~IsNull(ext) /\ \E e \in FeedIds : Val(ext) = "odds_" \o e

InSeq(x, s) == \E k \in 1..Len(s) : s[k] = x

\* DELETE FROM games WHERE game_type = 'soccer' AND external_id LIKE 'odds_%'
\*   AND external_id NOT IN (active ids)
Pruned(g, active) ==
  /\ g.game_type = "soccer"
  /\ LikeOdds(g.external_id)
  /\ ~InSeq(Val(g.external_id), active)
DeleteFinished(tbl, active) == { g \in tbl : ~Pruned(g, active) }

\* the rows of SELECT * FROM games WHERE <unique column> = value
RowsOf(S) == IF S = {} THEN << >> ELSE << CHOOSE g \in S : TRUE >>
GameById(tbl, i) == RowsOf({ g \in tbl : g.id = i })
GameByExternalId(tbl, ext) == RowsOf({ g \in tbl : g.external_id = Some(ext) })

\* ------------------------------------------------------------------ state
VARIABLES
  games,           \* table games: a set of rows
  nextGameId,      \* the id the next inserted games row takes
  coins,           \* table users: id -> coins
  bets,            \* table bets: row k has id k; rows are never deleted
  now,             \* Date.now()
  ticks,           \* clock advances so far
  lastOddsSyncAt,  \* bet.js module variable
  apiKey,          \* process.env.ODDS_API_KEY ("" when unset)
  finals,          \* the final scores the scores feed reports
  pc,              \* per request slot: "idle" or the statement awaited
  loc,             \* per request slot: the handler's local variables
  resp,            \* the response sent by the step just taken, if it sent one
  quota,           \* requests of each route that may still arrive; faults left
  credited,        \* history: per bet, how many times its winnings were credited
  placedOn,        \* history: per bet, the external id of the market it was placed on
  debited,         \* history: per account, the stakes debited by placements
  lastPass,        \* history: the last settlement pass that ran to its response
  recon            \* history: the reconciliation passes now writing to games

store == << games, nextGameId, coins, bets >>
env == << now, ticks, lastOddsSyncAt, apiKey, finals, recon >>
hist == << credited, placedOn, debited, lastPass >>
ctl == << pc, loc, resp, quota >>
vars == << games, nextGameId, coins, bets, now, ticks, lastOddsSyncAt, apiKey,
           finals, pc, loc, resp, quota, credited, placedOn, debited, lastPass,
           recon >>

NoLoc ==
  [userId |-> 0, gameId |-> 0, amount |-> 0, selectedTeam |-> "",
   game_name |-> "", game_type |-> "", chosenOdds |-> 0, placedExt |-> Null,
   betId |-> 0, result |-> "", winningTeam |-> "",
   events |-> << >>, i |-> 0, rows |-> << >>, j |-> 0,
   active |-> << >>, fetched |-> 0, upserted |-> 0, skippedNoOdds |-> 0,
   resolved |-> 0, oddsSync |-> "", startBets |-> 0,
   writes |-> 0]

NoResp == [route |-> "", writes |-> 0, status |-> 0, error |-> "", oddsSync |-> "", games |-> {}, bet |-> << >>,
           resolved |-> 0, completedEvents |-> 0,
           fetched |-> 0, upserted |-> 0, skippedNoOdds |-> 0, activeNow |-> 0]

\* lastPass when no settlement pass is on record: none has run to its response,
\* or the store was written since by another route or by a pass that failed.
\* A recorded pass keeps the completed results it took, the balances and bets
\* it left, and whether it repeated the batch of the pass recorded before it.
NoPass == [valid |-> FALSE, batch |-> << >>, coins |-> << >>, bets |-> << >>,
           repeats |-> FALSE]

\* recon follows one run of overlapping passes through syncEflCupOddsToDB: it
\* opens when a pass takes its snapshot while no other pass is between its
\* snapshot and its return, and is done when the last of them returns.  It
\* keeps the games table and the snapshot the run opened with, how many
\* passes joined, and whether every write to games since came from a pass
\* over that same snapshot that ran to its return.
NoRecon == [phase |-> "none", games |-> {}, nextId |-> 0, snapshot |-> << >>,
            clean |-> FALSE, passes |-> 0]
Mixed(phase) == [NoRecon EXCEPT !.phase = phase]
Reconciling(r) == pc[r] \in {"g_upsert", "g_delete"}
\* pass r takes its snapshot
Joined(r, snapshot) ==
  IF recon.phase = "open"
    THEN IF recon.clean /\ snapshot = recon.snapshot
           THEN [recon EXCEPT !.passes = @ + 1]
           ELSE Mixed("open")
    ELSE [phase |-> "open", games |-> games, nextId |-> nextGameId,
          snapshot |-> snapshot, clean |-> TRUE, passes |-> 1]
\* pass r returns
Ended(r, rc) ==
  IF \E s \in Slots \ {r} : Reconciling(s) THEN rc ELSE [rc EXCEPT !.phase = "done"]
\* pass r throws
Failed(r) ==
  IF pc[r] = "g_fetch" THEN recon
  ELSE IF \E s \in Slots \ {r} : Reconciling(s) THEN Mixed("open") ELSE NoRecon
\* another route writes to games
Disturbed == IF recon.phase = "none" THEN recon ELSE Mixed(recon.phase)
\* a GET /games request answers
Answered == IF recon.phase = "done" THEN NoRecon ELSE recon

Reply(route, st, err, w) ==
  [NoResp EXCEPT !.route = route, !.status = st, !.error = err, !.writes = w]

\* the handler sends its response and the slot is free again.  A response
\* records its route and how many writing statements the request executed.
Respond(r, rsp) ==
  /\ pc' = [pc EXCEPT ![r] = "idle"]
  /\ loc' = [loc EXCEPT ![r] = NoLoc]
  /\ resp' = rsp

\* the handler issues its next statement and awaits it
Await(r, p, l) ==
  /\ pc' = [pc EXCEPT ![r] = p]
  /\ loc' = [loc EXCEPT ![r] = l]
  /\ resp' = NoResp

\* a fetch or a statement throws
Faults == quota["fault"] > 0 /\ quota' = [quota EXCEPT !["fault"] = @ - 1]

\* a request arrives and takes the first free slot
Arrives(r, route) ==
  /\ pc[r] = "idle"
  /\ \A s \in Slots : s < r => pc[s] # "idle"
  /\ quota[route] > 0
  /\ quota["any"] > 0
  /\ quota' = [quota EXCEPT ![route] = @ - 1, !["any"] = @ - 1]

\* -------------------------------------------------- POST /api/bet/place
PlaceUserIds == {0} \cup Users \cup {UnknownUser}
PlaceAmounts == {"abc", "-1", "0", "2", "4"}
PlaceTeams == {"", "Red", "Blue", "Draw", "Green"}
\* the request bodies tried: the plain ones (a known account, a stake of 2 on
\* a side) and those that depart from a plain one in one field
OddFields(b) ==
  (IF b.userId \in Users THEN 0 ELSE 1) + (IF b.gameId = 0 THEN 1 ELSE 0)
  + (IF b.betAmount = "2" THEN 0 ELSE 1)
  + (IF b.selectedTeam \in {"Red", "Blue"} THEN 0 ELSE 1)
PlaceBodies(maxGameId) ==
  { b \in [userId : PlaceUserIds, gameId : 0..maxGameId,
           betAmount : PlaceAmounts, selectedTeam : PlaceTeams] : OddFields(b) <= 1 }

\* Number(column) of a nullable numeric column: Number(null) is 0
NumberOfColumn(c) == IF IsNull(c) THEN 0 ELSE Val(c)

\* step 2 of the handler: the odds of the selected side, null when the side
\* is not offered
ChooseOdds(game, selectedTeam) ==
  IF game.team1_name = Some(selectedTeam) THEN Some(NumberOfColumn(game.team1_odds))
  ELSE IF game.team2_name = Some(selectedTeam) THEN Some(NumberOfColumn(game.team2_odds))
  ELSE IF selectedTeam = "Draw"
    THEN IF ~IsNull(game.has_draw) /\ Val(game.has_draw) /\ ~Falsy(game.draw_odds)
           THEN Some(NumberOfColumn(game.draw_odds)) ELSE Null
  ELSE Null

\* the request arrives; the first validation runs before any statement
PlaceStart(r) ==
  /\ Arrives(r, "place")
  /\ \E body \in PlaceBodies(nextGameId) :
       LET userId == body.userId
           gameId == body.gameId
           selectedTeam == body.selectedTeam
           amount == Number(body.betAmount) IN
       IF userId = 0 \/ gameId = 0 \/ selectedTeam = "" \/ amount.nan \/ amount.v <= 0
         THEN Respond(r, Reply("place", 400,
                          "Invalid userId, gameId, selectedTeam or betAmount", 0))
         ELSE Await(r, "p_getGame",
                [NoLoc EXCEPT !.userId = userId, !.gameId = gameId,
                              !.amount = amount.v, !.selectedTeam = selectedTeam])
  /\ UNCHANGED << store, env, hist >>

\* 1) SELECT * FROM games WHERE id = $1, then 2) choose odds
PlaceGetGame(r) ==
  /\ pc[r] = "p_getGame"
  /\ LET gameRes == GameById(games, loc[r].gameId) IN
     IF Len(gameRes) = 0
       THEN Respond(r, Reply("place", 400, "Game not found", loc[r].writes))
       ELSE LET game == gameRes[1]
                chosenOdds == ChooseOdds(game, loc[r].selectedTeam) IN
            IF Falsy(chosenOdds)
              THEN Respond(r, Reply("place", 400, "Invalid selected team / odds not available",
                                loc[r].writes))
              ELSE Await(r, "p_getUser",
                     [loc[r] EXCEPT !.chosenOdds = Val(chosenOdds),
                                    !.game_name = game.game_name,
                                    !.game_type = game.game_type,
                                    !.placedExt = game.external_id])
  /\ UNCHANGED << store, env, hist, quota >>

\* 3) SELECT coins FROM users WHERE id = $1, and the balance check
HasFunds(balance, amount) == ~(balance < amount)

\* PlaceGetUser with the debit issued before the balance is compared
PlaceGetUserDebitsFirst(r) ==
  /\ pc[r] = "p_getUser"
  /\ loc[r].userId \in DOMAIN coins
  /\ coins' = [coins EXCEPT ![loc[r].userId] = @ - loc[r].amount]
  /\ debited' = [debited EXCEPT ![loc[r].userId] = @ + loc[r].amount]
  /\ IF ~HasFunds(coins[loc[r].userId], loc[r].amount)
       THEN Respond(r, Reply("place", 400, "Insufficient balance", loc[r].writes + 1))
       ELSE Await(r, "p_insert", [loc[r] EXCEPT !.writes = @ + 1])
  /\ UNCHANGED << games, nextGameId, bets, env, credited, placedOn, lastPass, quota >>

PlaceGetUser(r) ==
  /\ pc[r] = "p_getUser"
  /\ IF loc[r].userId \notin DOMAIN coins
       THEN Respond(r, Reply("place", 400, "User not found", loc[r].writes))
       ELSE IF ~HasFunds(coins[loc[r].userId], loc[r].amount)
         THEN Respond(r, Reply("place", 400, "Insufficient balance", loc[r].writes))
         ELSE Await(r, "p_debit", loc[r])
  /\ UNCHANGED << store, env, hist, quota >>

\* 4) UPDATE users SET coins = COALESCE(coins,0) - $1 WHERE id = $2
DebitedCoins(tbl, userId, amount) ==
  IF userId \in DOMAIN tbl THEN [tbl EXCEPT ![userId] = @ - amount] ELSE tbl

PlaceDebit(r) ==
  /\ pc[r] = "p_debit"
  /\ coins' = DebitedCoins(coins, loc[r].userId, loc[r].amount)
  /\ debited' = [debited EXCEPT ![loc[r].userId] = @ + loc[r].amount]
  /\ Await(r, "p_insert", [loc[r] EXCEPT !.writes = @ + 1])
  /\ lastPass' = NoPass
  /\ UNCHANGED << games, nextGameId, bets, env, credited, placedOn, quota >>

\* 5) INSERT INTO bets (...) VALUES ($1,$2,$3,$4,$5,'pending',$6) RETURNING *
NewBet(l, betId) ==
  [id |-> betId, user_id |-> l.userId, game_name |-> l.game_name,
   game_type |-> l.game_type, bet_amount |-> l.amount, odds |-> l.chosenOdds,
   status |-> "pending", selected_team |-> l.selectedTeam]

PlaceInsert(r) ==
  /\ pc[r] = "p_insert"
  /\ LET bet == NewBet(loc[r], Len(bets) + 1) IN
     /\ bets' = Append(bets, bet)
     /\ Respond(r, [Reply("place", 200, "", loc[r].writes + 1) EXCEPT !.bet = << bet >>])
  /\ credited' = Append(credited, [auto |-> 0, manual |-> 0])
  /\ placedOn' = Append(placedOn, loc[r].placedExt)
  /\ lastPass' = NoPass
  /\ UNCHANGED << games, nextGameId, coins, env, debited, quota >>

\* UPDATE users SET coins = COALESCE(coins,0) + $1 WHERE id = $2
CreditedCoins(tbl, userId, winnings) ==
  IF userId \in DOMAIN tbl THEN [tbl EXCEPT ![userId] = @ + winnings] ELSE tbl

\* Winnings at the odds the wager's market offers now, nothing when the
\* market is gone
WinningsAtMarketOdds(bet) ==
  LET offers == { g \in games : g.game_name = bet.game_name
                                /\ ~IsNull(ChooseOdds(g, bet.selected_team)) } IN
  IF offers = {} THEN 0
  ELSE bet.bet_amount * Val(ChooseOdds(CHOOSE g \in offers : TRUE, bet.selected_team))

\* Number(bet.bet_amount) * Number(bet.odds), of the row as it was read
Winnings(bet) == bet.bet_amount * bet.odds

\* UPDATE bets SET status = $1 WHERE id = $2
WithStatus(tbl, betId, status) ==
  [k \in 1..Len(tbl) |-> IF tbl[k].id = betId THEN [tbl[k] EXCEPT !.status = status] ELSE tbl[k]]

\* ------------------------------------------ POST /api/admin/auto-resolve
IsCompleted(e) == e.completed = TRUE

\* lines 79-93: the winning label of a result for a market, null when the
\* result is passed over (a side without a score entry, a score that is NaN)
WinningTeam(game, ev) ==
  LET scores == IF IsNull(ev.scores) THEN << >> ELSE Val(ev.scores)
      s1 == First(SelectSeq(scores, LAMBDA s : Some(s.name) = game.team1_name))
      s2 == First(SelectSeq(scores, LAMBDA s : Some(s.name) = game.team2_name)) IN
  IF IsNull(s1) \/ IsNull(s2) THEN Null
  ELSE LET team1Score == Number(Val(s1).score)
           team2Score == Number(Val(s2).score) IN
       IF team1Score.nan \/ team2Score.nan THEN Null
       ELSE IF team1Score.v > team2Score.v THEN game.team1_name
       ELSE IF team2Score.v > team1Score.v THEN game.team2_name
       ELSE Some("Draw")

\* PendingBets without the status condition
BetsOfAnyStatus(tbl, gameName) == SelectSeq(tbl, LAMBDA b : b.game_name = gameName)

\* SELECT * FROM bets WHERE status = 'pending' AND game_name = $1
PendingBets(tbl, gameName) ==
  SelectSeq(tbl, LAMBDA b : b.status = "pending" /\ b.game_name = gameName)

\* NewStatus with every settled wager a winner
AlwaysWon(bet, winningTeam) == "won"

\* const newStatus = bet.selected_team === winningTeam ? "won" : "lost"
NewStatus(bet, winningTeam) == IF bet.selected_team = winningTeam THEN "won" ELSE "lost"

AutoStart(r) ==
  /\ Arrives(r, "auto")
  /\ IF apiKey = ""
       THEN Respond(r, Reply("auto", 500, "ODDS_API_KEY missing", 0))
       ELSE Await(r, "a_fetch", [NoLoc EXCEPT !.startBets = Len(bets)])
  /\ UNCHANGED << store, env, hist >>

\* the pass has run: res.json({ success: true, resolved, completedEvents })
AutoDone(r, l) ==
  /\ Respond(r, [Reply("auto", 200, "", l.writes) EXCEPT
                   !.resolved = l.resolved, !.completedEvents = Len(l.events)])
  /\ lastPass' = IF \A s \in Slots \ {r} : pc[s] = "idle"
                    THEN [valid |-> TRUE, batch |-> l.events, coins |-> coins',
                          bets |-> bets',
                          repeats |-> lastPass.valid /\ lastPass.batch = l.events]
                    ELSE NoPass

\* the head of `for (const ev of completed)`, with l.i the event to take next
AutoNextEvent(r, l) ==
  IF l.i > Len(l.events)
    THEN AutoDone(r, l)
    ELSE Await(r, "a_getGame", l) /\ UNCHANGED lastPass

\* the head of `for (const bet of betsRes.rows)`, with l.j the bet to take next
AutoNextBet(r, l) ==
  IF l.j > Len(l.rows)
    THEN AutoNextEvent(r, [l EXCEPT !.i = @ + 1, !.rows = << >>, !.j = 0,
                                    !.winningTeam = "", !.game_name = ""])
    ELSE Await(r, "a_update", l) /\ UNCHANGED lastPass

\* the scores fetch answers; completed = events.filter(e => e.completed === true)
AutoFetch(r) ==
  /\ pc[r] = "a_fetch"
  /\ UNCHANGED << store, env, credited, placedOn, debited, quota >>
  /\ \E batch \in ScoreBatches(finals) :
       AutoNextEvent(r, [loc[r] EXCEPT !.events = SelectSeq(batch, IsCompleted), !.i = 1])

\* AutoGetGame taking a result without two numeric scores for a draw
AutoGetGameUnscored(r) ==
  /\ pc[r] = "a_getGame"
  /\ UNCHANGED << store, env, credited, placedOn, debited, quota >>
  /\ LET ev == loc[r].events[loc[r].i]
         gameRes == GameByExternalId(games, ExternalId(ev.id)) IN
     IF Len(gameRes) = 0
       THEN AutoNextEvent(r, [loc[r] EXCEPT !.i = @ + 1])
       ELSE /\ Await(r, "a_getBets",
                 [loc[r] EXCEPT !.winningTeam =
                                    IF IsNull(WinningTeam(gameRes[1], ev)) THEN "Draw"
                                    ELSE Val(WinningTeam(gameRes[1], ev)),
                                !.game_name = gameRes[1].game_name])
            /\ UNCHANGED lastPass

\* SELECT * FROM games WHERE external_id = $1, then the winner from the scores
AutoGetGame(r) ==
  /\ pc[r] = "a_getGame"
  /\ UNCHANGED << store, env, credited, placedOn, debited, quota >>
  /\ LET ev == loc[r].events[loc[r].i]
         gameRes == GameByExternalId(games, ExternalId(ev.id)) IN
     IF Len(gameRes) = 0 \/ IsNull(WinningTeam(gameRes[1], ev))
       THEN AutoNextEvent(r, [loc[r] EXCEPT !.i = @ + 1])
       ELSE /\ Await(r, "a_getBets",
                 [loc[r] EXCEPT !.winningTeam = Val(WinningTeam(gameRes[1], ev)),
                                !.game_name = gameRes[1].game_name])
            /\ UNCHANGED lastPass

AutoGetBets(r) ==
  /\ pc[r] = "a_getBets"
  /\ UNCHANGED << store, env, credited, placedOn, debited, quota >>
  /\ AutoNextBet(r, [loc[r] EXCEPT !.rows = PendingBets(bets, loc[r].game_name), !.j = 1])

\* UPDATE bets SET status = $1 WHERE id = $2, of the bet row read before
AutoUpdate(r) ==
  /\ pc[r] = "a_update"
  /\ UNCHANGED << games, nextGameId, coins, env, credited, placedOn, debited, quota >>
  /\ LET bet == loc[r].rows[loc[r].j]
         newStatus == NewStatus(bet, loc[r].winningTeam) IN
     /\ bets' = WithStatus(bets, bet.id, newStatus)
     /\ IF newStatus = "won"
          THEN Await(r, "a_credit", [loc[r] EXCEPT !.writes = @ + 1]) /\ UNCHANGED lastPass
          ELSE AutoNextBet(r, [loc[r] EXCEPT !.j = @ + 1, !.resolved = @ + 1,
                                             !.writes = @ + 1])

\* if (won) UPDATE users SET coins = COALESCE(coins,0) + $1 WHERE id = $2
AutoCredit(r) ==
  /\ pc[r] = "a_credit"
  /\ UNCHANGED << games, nextGameId, bets, env, placedOn, debited, quota >>
  /\ LET bet == loc[r].rows[loc[r].j] IN
     /\ coins' = CreditedCoins(coins, bet.user_id, Winnings(bet))
     /\ credited' = [credited EXCEPT ![bet.id].auto = @ + 1]
  /\ AutoNextBet(r, [loc[r] EXCEPT !.j = @ + 1, !.resolved = @ + 1, !.writes = @ + 1])

\* ------------------------------------------- POST /api/admin/resolve-bet
ResolveResults == {"won", "lost", "void"}

ResolveStart(r) ==
  /\ Arrives(r, "resolve")
  /\ \E betId \in 0..(Len(bets) + 1), result \in ResolveResults :
       IF betId = 0 \/ (result # "won" /\ result # "lost")
         THEN Respond(r, Reply("resolve", 400, "result must be 'won' or 'lost'", 0))
         ELSE Await(r, "r_getBet", [NoLoc EXCEPT !.betId = betId, !.result = result])
  /\ UNCHANGED << store, env, hist >>

\* 1) SELECT * FROM bets WHERE id = $1
ResolveGetBet(r) ==
  /\ pc[r] = "r_getBet"
  /\ LET betResult == SelectSeq(bets, LAMBDA b : b.id = loc[r].betId) IN
     IF Len(betResult) = 0
       THEN Respond(r, Reply("resolve", 400, "Bet not found", loc[r].writes))
       ELSE Await(r, IF loc[r].result = "won" THEN "r_credit" ELSE "r_update",
                  [loc[r] EXCEPT !.rows = betResult])
  /\ UNCHANGED << store, env, hist, quota >>

\* 2) if won: UPDATE users SET coins = COALESCE(coins, 0) + $1 WHERE id = $2
ResolveCredit(r) ==
  /\ pc[r] = "r_credit"
  /\ LET bet == loc[r].rows[1] IN
     /\ coins' = CreditedCoins(coins, bet.user_id, Winnings(bet))
     /\ credited' = [credited EXCEPT ![bet.id].manual = @ + 1]
  /\ Await(r, "r_update", [loc[r] EXCEPT !.writes = @ + 1])
  /\ lastPass' = NoPass
  /\ UNCHANGED << games, nextGameId, bets, env, placedOn, debited, quota >>

\* 3) UPDATE bets SET status = $1 WHERE id = $2 RETURNING *
ResolveUpdate(r) ==
  /\ pc[r] = "r_update"
  /\ bets' = WithStatus(bets, loc[r].betId, loc[r].result)
  /\ Respond(r, [Reply("resolve", 200, "", loc[r].writes + 1) EXCEPT
                   !.bet = SelectSeq(bets', LAMBDA b : b.id = loc[r].betId)])
  /\ lastPass' = NoPass
  /\ UNCHANGED << games, nextGameId, coins, env, credited, placedOn, debited, quota >>

\* ------------------------------------------------- GET /api/bet/games
\* CooldownElapsed with the comparison left out: every request syncs
CooldownIgnored(t, last) == TRUE

\* if (Date.now() - lastOddsSyncAt > ODDS_SYNC_COOLDOWN_MS)
CooldownElapsed(t, last) == t - last > ODDS_SYNC_COOLDOWN_MS

\* the events the loop passes over for want of a home or an away price
RECURSIVE SkipUnpriced(_)
SkipUnpriced(l) ==
  IF l.i > Len(l.events) \/ Tradeable(l.events[l.i]) THEN l
  ELSE SkipUnpriced([l EXCEPT !.i = @ + 1, !.skippedNoOdds = @ + 1])

\* the ids the DELETE is given: if (activeExternalIds.length > 0)
Prunes(active) == Len(active) > 0

\* syncEflCupOddsToDB run from its snapshot to its return with no other
\* statement in between: the loop of upserts, then the DELETE
RECURSIVE UpsertAll(_, _)
UpsertAll(st, events) ==
  IF events = << >> THEN st
  ELSE IF ~Tradeable(Head(events)) THEN UpsertAll(st, Tail(events))
  ELSE LET v == UpsertValues(Head(events)) IN
       UpsertAll([games |-> UpsertGame(st.games, st.nextId, v),
                  nextId |-> IF InsertsRow(st.games, v) THEN st.nextId + 1 ELSE st.nextId,
                  active |-> Append(st.active, Val(v.external_id))],
                 Tail(events))
Reconciled(tbl, nextId, snapshot) ==
  LET st == UpsertAll([games |-> tbl, nextId |-> nextId, active |-> << >>], snapshot) IN
  IF Prunes(st.active) THEN DeleteFinished(st.games, st.active) ELSE st.games

\* syncEflCupOddsToDB returns; lastOddsSyncAt = Date.now(); the SELECT follows
SyncReturns(r, l, rc) ==
  /\ lastOddsSyncAt' = now
  /\ recon' = Ended(r, rc)
  /\ Await(r, "g_select", [l EXCEPT !.oddsSync = "synced"])

\* the head of `for (const ev of events)`, with l.i the event to take next:
\* on to the next upsert, or past the loop to the DELETE or the return
GamesContinue(r, l0, rc) ==
  LET l == SkipUnpriced(l0) IN
  IF l.i <= Len(l.events)
    THEN /\ Await(r, "g_upsert",
              [l EXCEPT !.active = Append(@, ExternalId(l.events[l.i].id))])
         /\ recon' = rc
         /\ UNCHANGED lastOddsSyncAt
    ELSE IF Prunes(l.active)
      THEN Await(r, "g_delete", l) /\ recon' = rc /\ UNCHANGED lastOddsSyncAt
      ELSE SyncReturns(r, l, rc)

GamesStart(r) ==
  /\ Arrives(r, "games")
  /\ IF CooldownElapsed(now, lastOddsSyncAt)
       THEN IF apiKey = ""
              THEN Await(r, "g_select", [NoLoc EXCEPT !.oddsSync = "failed"])
              ELSE Await(r, "g_fetch", NoLoc)
       ELSE Await(r, "g_select", [NoLoc EXCEPT !.oddsSync = "skipped"])
  /\ UNCHANGED << store, env, hist >>

\* the odds fetch answers: const events = r.data || []
GamesFetch(r) ==
  /\ pc[r] = "g_fetch"
  /\ UNCHANGED << store, now, ticks, apiKey, finals, hist, quota >>
  /\ \E snapshot \in OddsSnapshots :
       GamesContinue(r, [loc[r] EXCEPT !.events = snapshot, !.i = 1,
                                       !.fetched = Len(snapshot)],
                     Joined(r, snapshot))

\* the INSERT ... ON CONFLICT of one event; upserted++
GamesUpsert(r) ==
  /\ pc[r] = "g_upsert"
  /\ LET v == UpsertValues(loc[r].events[loc[r].i]) IN
     /\ games' = UpsertGame(games, nextGameId, v)
     /\ nextGameId' = IF InsertsRow(games, v) THEN nextGameId + 1 ELSE nextGameId
  /\ lastPass' = NoPass
  /\ UNCHANGED << coins, bets, now, ticks, apiKey, finals, credited, placedOn, debited, quota >>
  /\ GamesContinue(r, [loc[r] EXCEPT !.i = @ + 1, !.upserted = @ + 1, !.writes = @ + 1],
                   recon)

\* the DELETE of the markets the snapshot no longer carries
GamesDelete(r) ==
  /\ pc[r] = "g_delete"
  /\ games' = DeleteFinished(games, loc[r].active)
  /\ lastPass' = NoPass
  /\ UNCHANGED << nextGameId, coins, bets, now, ticks, apiKey, finals,
                  credited, placedOn, debited, quota >>
  /\ SyncReturns(r, [loc[r] EXCEPT !.writes = @ + 1], recon)

\* GamesSelect with SELECT * FROM games, no WHERE clause
GamesSelectAll(r) ==
  /\ pc[r] = "g_select"
  /\ Respond(r, [Reply("games", 200, "", loc[r].writes) EXCEPT
                   !.oddsSync = loc[r].oddsSync,
                   !.games = games,
                   !.fetched = loc[r].fetched,
                   !.upserted = loc[r].upserted,
                   !.skippedNoOdds = loc[r].skippedNoOdds,
                   !.activeNow = Len(loc[r].active)])
  /\ recon' = Answered
  /\ UNCHANGED << store, now, ticks, lastOddsSyncAt, apiKey, finals, hist, quota >>

\* SELECT * FROM games WHERE external_id LIKE 'odds_%' ORDER BY start_time
GamesSelect(r) ==
  /\ pc[r] = "g_select"
  /\ Respond(r, [Reply("games", 200, "", loc[r].writes) EXCEPT
                   !.oddsSync = loc[r].oddsSync,
                   !.games = { g \in games : LikeOdds(g.external_id) },
                   !.fetched = loc[r].fetched,
                   !.upserted = loc[r].upserted,
                   !.skippedNoOdds = loc[r].skippedNoOdds,
                   !.activeNow = Len(loc[r].active)])
  /\ recon' = Answered
  /\ UNCHANGED << store, now, ticks, lastOddsSyncAt, apiKey, finals, hist, quota >>

\* GamesSyncThrows without the inner try/catch: the error reaches the outer
\* handler and the request answers 500
GamesSyncAborts(r) ==
  /\ pc[r] \in {"g_fetch", "g_upsert", "g_delete"}
  /\ Faults
  /\ Respond(r, Reply("games", 500, "error", loc[r].writes))
  /\ recon' = Failed(r)
  /\ UNCHANGED << store, now, ticks, lastOddsSyncAt, apiKey, finals, hist >>

\* GamesSyncThrows with the cooldown stamped on the way out
GamesSyncStamps(r) ==
  /\ pc[r] \in {"g_fetch", "g_upsert", "g_delete"}
  /\ Faults
  /\ Await(r, "g_select", [NoLoc EXCEPT !.oddsSync = "failed", !.writes = loc[r].writes])
  /\ recon' = Failed(r)
  /\ lastOddsSyncAt' = now
  /\ UNCHANGED << store, now, ticks, apiKey, finals, hist >>

\* the fetch or a statement of the sync throws: caught at line 154, the handler
\* goes on to its SELECT
GamesSyncThrows(r) ==
  /\ pc[r] \in {"g_fetch", "g_upsert", "g_delete"}
  /\ Faults
  /\ Await(r, "g_select", [NoLoc EXCEPT !.oddsSync = "failed", !.writes = loc[r].writes])
  /\ recon' = Failed(r)
  /\ UNCHANGED << store, now, ticks, lastOddsSyncAt, apiKey, finals, hist >>

\* the SELECT throws: 500
GamesSelectThrows(r) ==
  /\ pc[r] = "g_select"
  /\ Faults
  /\ Respond(r, Reply("games", 500, "error", loc[r].writes))
  /\ recon' = Answered
  /\ UNCHANGED << store, now, ticks, lastOddsSyncAt, apiKey, finals, hist >>

\* --------------------------------------------- POST /api/admin/add-game
\* INSERT INTO games (game_name, game_type, odds, start_time): no external id,
\* no sides
ManualGame(gameName, gameType, odds, i) ==
  [id |-> i, external_id |-> Null, game_name |-> gameName, game_type |-> gameType,
   odds |-> Some(odds), start_time |-> Null, team1_name |-> Null, team2_name |-> Null,
   team1_odds |-> Null, team2_odds |-> Null, draw_odds |-> Null, has_draw |-> Null]

AddGame(r) ==
  /\ Arrives(r, "addgame")
  /\ games' = games \cup { ManualGame("Friendly", "soccer", 2, nextGameId) }
  /\ nextGameId' = nextGameId + 1
  /\ Respond(r, Reply("addgame", 200, "", 1))
  /\ lastPass' = NoPass
  /\ recon' = Disturbed
  /\ UNCHANGED << coins, bets, now, ticks, lastOddsSyncAt, apiKey, finals,
                  credited, placedOn, debited >>

\* -------------------------------------------------- failures and the clock
LedgerAwaits ==
  {"p_getGame", "p_getUser", "p_debit", "p_insert",
   "a_fetch", "a_getGame", "a_getBets", "a_update", "a_credit",
   "r_getBet", "r_credit", "r_update"}
AutoAwaits == {"a_fetch", "a_getGame", "a_getBets", "a_update", "a_credit"}
PlaceAwaits == {"p_getGame", "p_getUser", "p_debit", "p_insert"}
RouteOf(p) == IF p \in PlaceAwaits THEN "place" ELSE IF p \in AutoAwaits THEN "auto" ELSE "resolve"

\* the awaited fetch or statement throws: the handler's catch answers 500 and
\* nothing the handler did before is undone.  (admin.js never requires axios:
\* where no global of that name is bound, a_fetch always ends here.)
Throws(r) ==
  /\ pc[r] \in LedgerAwaits
  /\ Respond(r, Reply(RouteOf(pc[r]), 500, "error", loc[r].writes))
  /\ Faults
  /\ lastPass' = IF pc[r] \in AutoAwaits THEN NoPass ELSE lastPass
  /\ UNCHANGED << store, env, credited, placedOn, debited >>

Tick ==
  /\ ticks < MaxTicks
  /\ ticks' = ticks + 1
  /\ now' = now + TickMs
  /\ resp' = NoResp
  /\ UNCHANGED << store, lastOddsSyncAt, apiKey, finals, recon, hist, pc, loc, quota >>

\* ------------------------------------------------------- specifications
Quiescent == \A r \in Slots : pc[r] = "idle"

Quota(p, a, rs, g, ag, n) ==
  [route \in {"place", "auto", "resolve", "games", "addgame", "any", "fault"} |->
     CASE route = "any" -> n
       [] route = "fault" -> MaxFaults
       [] route = "place" -> p
       [] route = "auto" -> a
       [] route = "resolve" -> rs
       [] route = "games" -> g
       [] route = "addgame" -> ag]

InitCtl ==
  /\ pc = [r \in Slots |-> "idle"]
  /\ loc = [r \in Slots |-> NoLoc]
  /\ resp = NoResp

InitLedger ==
  /\ coins = [u \in Users |-> InitCoins]
  /\ bets = << >>
  /\ credited = << >>
  /\ placedOn = << >>
  /\ debited = [u \in Users |-> 0]
  /\ lastPass = NoPass
  /\ finals \in FinalChoices
  /\ apiKey \in {"", "key"}
  /\ now = StartTime
  /\ ticks = 0
  /\ recon = NoRecon

\* the store as a first GET /games leaves it when the feed answers Ev1, Ev2
SyncedGames == UpsertGame(UpsertGame({}, 1, UpsertValues(Ev1)), 2, UpsertValues(Ev2))

\* Ledger routes, any interleaving, over a store a first sync has filled.
Init ==
  /\ InitCtl
  /\ InitLedger
  /\ games = SyncedGames
  /\ nextGameId = 3
  /\ lastOddsSyncAt = StartTime
  /\ quota = Quota(MaxPlace, MaxAuto, MaxResolve, 0, 0, MaxRequests)

PlaceStep(r) ==
  \/ PlaceStart(r)
  \/ PlaceGetGame(r)
  \/ PlaceGetUser(r)
  \/ PlaceDebit(r)
  \/ PlaceInsert(r)

AutoStep(r) ==
  \/ AutoStart(r)
  \/ AutoFetch(r)
  \/ AutoGetGame(r)
  \/ AutoGetBets(r)
  \/ AutoUpdate(r)
  \/ AutoCredit(r)

ResolveStep(r) ==
  \/ ResolveStart(r)
  \/ ResolveGetBet(r)
  \/ ResolveCredit(r)
  \/ ResolveUpdate(r)

Next == \E r \in Slots : PlaceStep(r) \/ AutoStep(r) \/ ResolveStep(r) \/ Throws(r)

Spec == Init /\ [][Next]_vars

\* Every route but the manual settlement, one request at a time and the clock
\* advancing between requests, from an empty games table.
InitSeq ==
  /\ InitCtl
  /\ InitLedger
  /\ games = {}
  /\ nextGameId = 1
  /\ lastOddsSyncAt = 0
  /\ quota = Quota(MaxPlace, MaxAuto, 0, MaxGames, MaxAddGame, MaxSeqRequests)

MarketStep(r) ==
  \/ GamesStart(r)
  \/ GamesFetch(r)
  \/ GamesUpsert(r)
  \/ GamesDelete(r)
  \/ GamesSelect(r)
  \/ GamesSyncThrows(r)
  \/ GamesSelectThrows(r)
  \/ AddGame(r)

NextSeq ==
  \/ PlaceStep(1)
  \/ AutoStep(1)
  \/ MarketStep(1)
  \/ Throws(1)
  \/ (Quiescent /\ Tick)

SpecSeq == InitSeq /\ [][NextSeq]_vars

\* The market routes (GET /games, POST /add-game), any interleaving, and the
\* clock advancing at any moment, from an empty games table.
InitRefresh ==
  /\ InitCtl
  /\ InitLedger
  /\ games = {}
  /\ nextGameId = 1
  /\ lastOddsSyncAt = 0
  /\ quota = Quota(0, 0, 0, MaxRefresh, MaxAddGame, MaxRefresh)

NextRefresh == (\E r \in Slots : MarketStep(r)) \/ Tick

SpecRefresh == InitRefresh /\ [][NextRefresh]_vars

\* ------------------------------------------------------------- properties
NoFaultYet == quota["fault"] = MaxFaults
NoManualResolve == quota["resolve"] = MaxResolve

RECURSIVE Sum(_)
Sum(ns) == IF ns = << >> THEN 0 ELSE Head(ns) + Sum(Tail(ns))

\* the stakes of all the bets of account u
Staked(u) ==
  Sum([k \in 1..Len(bets) |-> IF bets[k].user_id = u THEN bets[k].bet_amount ELSE 0])
\* stake * odds over the bets of account u that are won
WonPayout(u) ==
  Sum([k \in 1..Len(bets) |->
         IF bets[k].user_id = u /\ bets[k].status = "won"
           THEN bets[k].bet_amount * bets[k].odds ELSE 0])
Credits(k) == credited[k].auto + credited[k].manual

\* C1: every account's balance is >= 0 in every state placements and
\* settlement passes can reach, whatever their interleaving.
C1_BalanceNeverNegative == \A u \in Users : coins[u] >= 0

C4_TerminalStatusIsFinal ==
  [][\A k \in 1..Len(bets) :
       bets[k].status # "pending" =>
         /\ bets'[k].status = bets[k].status
         /\ Credits(k)' > Credits(k) => Credits(k) = 0]_vars

\* C5: the transition to won and the credit are one atomic unit.  No state has
\* a won bet whose winnings are not credited, or winnings credited for a bet
\* that is not won.
C5_WonIffCredited ==
  \A k \in 1..Len(bets) : (bets[k].status = "won") <=> (Credits(k) > 0)

\* C6: placement is one atomic unit.  Once no request is in progress, also
\* after a statement has thrown, the stakes debited from an account are exactly
\* the stakes of its bet rows: no debit without a bet, no bet without a debit.
C6_DebitIffBet == Quiescent => \A u \in Users : debited[u] = Staked(u)

PlaceRejections ==
  {"Invalid userId, gameId, selectedTeam or betAmount", "Game not found",
   "Invalid selected team / odds not available", "User not found",
   "Insufficient balance"}

\* C7: a placement rejected by validation (400, whichever the reason) has
\* executed no writing statement: balances and bets are as the other requests
\* left them.
C7_RejectedPlacementWritesNothing ==
  (resp.route = "place" /\ resp.status = 400) =>
    /\ resp.error \in PlaceRejections
    /\ resp.writes = 0

\* a stake above the balance was rejected, while the account holds a bet and
\* has coins left
C7_Witness ==
  /\ resp.route = "place"
  /\ resp.status = 400
  /\ resp.error = "Insufficient balance"
  /\ \E u \in Users : coins[u] > 0 /\ Staked(u) > 0

\* C8: settlement is idempotent.  A pass that runs to its response right after
\* a pass over the same completed results, with no write by another route in
\* between, leaves the balances and the bets as that pass left them.
C8_SettlementIdempotent ==
  [][(lastPass.valid /\ lastPass'.valid /\ lastPass'.batch = lastPass.batch) =>
       (lastPass'.coins = lastPass.coins /\ lastPass'.bets = lastPass.bets)]_vars

\* a second pass over the same results has answered, after the first one paid
\* a winning bet
C8_Witness ==
  /\ resp.route = "auto"
  /\ resp.status = 200
  /\ lastPass.valid
  /\ lastPass.repeats
  /\ lastPass.batch # << >>
  /\ \E k \in 1..Len(bets) : bets[k].status = "won" /\ credited[k].auto = 1

Removed == { g.id : g \in games } \ { g.id : g \in games' }
\* the ids of the markets of the feed's namespace that a snapshot does not carry
AbsentFrom(tbl, snapshot) ==
  { g.id : g \in { h \in tbl : LikeOdds(h.external_id)
                      /\ ~ \E k \in 1..Len(snapshot) :
                             Val(h.external_id) = ExternalId(snapshot[k].id) } }

\* C10: pruning safety.  A reconciliation pass over an empty snapshot deletes
\* no market; a pass over a non-empty snapshot deletes exactly the odds_
\* markets whose external id is absent from the snapshot; no step of a pass
\* deletes any other market.
C10_PrunesExactlyTheAbsent ==
  [][\A r \in Slots :
       pc[r] \in {"g_fetch", "g_upsert", "g_delete"} =>
         IF pc'[r] = "g_select" /\ loc'[r].oddsSync = "synced"
           THEN Removed = IF loc'[r].events = << >> THEN {}
                          ELSE AbsentFrom(games, loc'[r].events)
           ELSE Removed = {}]_vars

\* C11: reconciliation idempotence.  When a run of passes over one snapshot
\* has returned (one pass, or several that overlapped) and nothing else wrote
\* to games meanwhile, the games table is what one uninterrupted pass over
\* that snapshot makes of the table the run started from, and one more pass
\* over the snapshot would leave it as it is.
C11_ReconcileIdempotent ==
  (recon.phase = "done" /\ recon.clean) =>
    /\ games = Reconciled(recon.games, recon.nextId, recon.snapshot)
    /\ Reconciled(games, nextGameId, recon.snapshot) = games

\* two overlapping passes over one snapshot have returned and changed the store
C11_Witness ==
  /\ recon.phase = "done"
  /\ recon.clean
  /\ recon.passes >= 2
  /\ games # recon.games
  /\ \E g \in recon.games : g \notin games

\* the requests whose feed fetch is in flight
Fetching == { r \in Slots : pc[r] = "g_fetch" }

\* C12, as stated: at most one feed fetch per cooldown window, requests that
\* arrive while another request's fetch is in flight included: no two feed
\* fetches are ever in flight together.
C12_OneFetchInFlight == Cardinality(Fetching) <= 1

\* C12, amended: an arriving refresh request issues a feed fetch exactly when
\* the credential is set and more than the cooldown has passed since the
\* shared timestamp was last written by a completed sync.  Requests arriving
\* within the cooldown of a completed sync issue none; requests arriving
\* before a running sync has completed each issue one.
C12_FetchOnlyAfterCooldown ==
  [][\A r \in Slots :
       (pc[r] = "idle" /\ pc'[r] \in {"g_fetch", "g_select"}) =>
         (pc'[r] = "g_fetch" <=>
            (apiKey # "" /\ now - lastOddsSyncAt > ODDS_SYNC_COOLDOWN_MS))]_vars

\* a request that arrived later than a completed sync, within its cooldown,
\* while another request that arrived before that sync completed is fetching
C12_Witness ==
  \E r \in Slots, q \in Slots :
    /\ pc[r] = "g_select"
    /\ loc[r].oddsSync = "skipped"
    /\ lastOddsSyncAt > 0
    /\ now > lastOddsSyncAt
    /\ pc[q] = "g_fetch"

\* the rows of games that came from the feed
FeedMarkets == { g \in games : g.external_id \in {Some("odds_1"), Some("odds_2")} }

\* C13, as stated: a refresh request that was served within the cooldown
\* reports the sync as skipped, has fetched and written nothing, and returns
\* the contents of the games table.
C13_SkippedReturnsStore ==
  (resp.route = "games" /\ resp.status = 200 /\ resp.oddsSync = "skipped") =>
    /\ resp.fetched = 0
    /\ resp.writes = 0
    /\ resp.games = games

\* C13, amended: a refresh request that arrives while the cooldown has not
\* elapsed issues no fetch and goes straight to its SELECT with the sync
\* marked skipped; it executes no writing statement; and its answer reports
\* the sync as skipped and returns the rows of games that carry a feed
\* external id (odds_...), as they are when the SELECT runs.
C13_SkippedRefresh ==
  [][\A r \in Slots :
       /\ (pc[r] = "idle" /\ pc'[r] \in {"g_fetch", "g_select"}
              /\ now - lastOddsSyncAt <= ODDS_SYNC_COOLDOWN_MS) =>
            /\ pc'[r] = "g_select"
            /\ loc'[r].oddsSync = "skipped"
            /\ loc'[r].writes = 0
            /\ UNCHANGED store
       /\ (pc[r] = "g_select" /\ loc[r].oddsSync = "skipped" /\ pc'[r] = "idle"
              /\ resp'.status = 200) =>
            /\ resp'.oddsSync = "skipped"
            /\ resp'.fetched = 0
            /\ resp'.writes = 0
            /\ resp'.games = FeedMarkets
            /\ UNCHANGED store]_vars

\* a skipped request has answered from a store that holds feed markets and a
\* market added by hand
C13_Witness ==
  /\ resp.route = "games"
  /\ resp.status = 200
  /\ resp.oddsSync = "skipped"
  /\ resp.games # {}
  /\ resp.games # games

\* C14, as stated: a refresh request whose feed fetch failed answers
\* successfully, with a degraded sync status and the contents of the games
\* table, having written nothing.
C14_FailedFetchReturnsStore ==
  (resp.route = "games" /\ resp.oddsSync = "failed" /\ resp.writes = 0) =>
    /\ resp.status = 200
    /\ resp.games = games

\* the feed fetch of request r fails on this step: the credential is missing
\* when the sync is entered, or the fetch in flight throws
FetchFails(r) ==
  \/ /\ pc[r] = "idle"
     /\ pc'[r] \in {"g_fetch", "g_select"}
     /\ apiKey = ""
     /\ now - lastOddsSyncAt > ODDS_SYNC_COOLDOWN_MS
  \/ /\ pc[r] = "g_fetch"
     /\ pc'[r] # "g_fetch"
     /\ quota'["fault"] < quota["fault"]

\* C14, amended: when the feed fetch of a refresh request fails, the request
\* goes on to its SELECT with the sync marked failed instead of answering an
\* error, the games, users and bets tables are as they were, and the request
\* has written nothing; its 200 answer reports the failed sync and returns
\* the rows of games that carry a feed external id.
C14_FailedFetchDegrades ==
  [][\A r \in Slots :
       /\ FetchFails(r) =>
            /\ pc'[r] = "g_select"
            /\ loc'[r].oddsSync = "failed"
            /\ loc'[r].writes = 0
            /\ UNCHANGED store
       /\ (pc[r] = "g_select" /\ loc[r].oddsSync = "failed" /\ loc[r].writes = 0
              /\ pc'[r] = "idle" /\ resp'.status = 200) =>
            /\ resp'.oddsSync = "failed"
            /\ resp'.writes = 0
            /\ resp'.games = FeedMarkets
            /\ UNCHANGED store]_vars

\* a request whose fetch failed has answered 200 with the feed markets, over a
\* ledger that holds a wager
C14_Witness ==
  /\ resp.route = "games"
  /\ resp.status = 200
  /\ resp.oddsSync = "failed"
  /\ resp.writes = 0
  /\ resp.games # {}
  /\ apiKey # ""
  /\ Len(bets) > 0

\* request r takes this step
Acts(r) == pc'[r] # pc[r] \/ loc'[r] # loc[r]

EntriesOf(ev, side) ==
  IF IsNull(ev.scores) THEN {}
  ELSE { k \in 1..Len(Val(ev.scores)) : Some(Val(ev.scores)[k].name) = side }
ScoreOf(ev, side) ==
  LET k == CHOOSE k \in EntriesOf(ev, side) : \A m \in EntriesOf(ev, side) : k <= m IN
  Number(Val(ev.scores)[k].score)
\* a result with a numeric score for both sides of a market
Scored(ev, game) ==
  /\ EntriesOf(ev, game.team1_name) # {}
  /\ EntriesOf(ev, game.team2_name) # {}
  /\ ~ScoreOf(ev, game.team1_name).nan
  /\ ~ScoreOf(ev, game.team2_name).nan
\* higher score wins, equal scores are a draw
Label(ev, game) ==
  LET a == ScoreOf(ev, game.team1_name).v
      b == ScoreOf(ev, game.team2_name).v IN
  IF a > b THEN Val(game.team1_name) ELSE IF b > a THEN Val(game.team2_name) ELSE "Draw"
\* the market a result belongs to, if the store has it
MarketOf(ev) == { g \in games : g.external_id = Some(ExternalId(ev.id)) }
NoFault == quota'["fault"] = quota["fault"]

\* C16: for a completed result whose market is found and whose two scores are
\* numeric, the winning label is the higher-scoring side's name or "Draw";
\* the pass takes every pending wager with the market's name; each becomes
\* won if and only if its selected side equals the label, otherwise lost; a
\* won wager credits its account exactly stake * odds and a lost wager
\* leaves every balance as it is.
C16_SettlementOutcome ==
  [][\A r \in Slots : (Acts(r) /\ NoFault) =>
       /\ (pc[r] = "a_getGame" /\ pc'[r] = "a_getBets") =>
            \E g \in MarketOf(loc[r].events[loc[r].i]) :
              /\ Scored(loc[r].events[loc[r].i], g)
              /\ loc'[r].winningTeam = Label(loc[r].events[loc[r].i], g)
              /\ loc'[r].game_name = g.game_name
       /\ pc[r] = "a_getBets" =>
            LET due == { k \in 1..Len(bets) : bets[k].status = "pending"
                                               /\ bets[k].game_name = loc[r].game_name } IN
            IF due = {} THEN pc'[r] # "a_update"
            ELSE /\ pc'[r] = "a_update"
                 /\ { loc'[r].rows[j].id : j \in 1..Len(loc'[r].rows) } = due
       /\ pc[r] = "a_update" =>
            LET k == loc[r].rows[loc[r].j].id
                wins == bets[k].selected_team = loc[r].winningTeam IN
            /\ bets'[k].status = IF wins THEN "won" ELSE "lost"
            /\ coins' = coins
            /\ wins <=> pc'[r] = "a_credit"
       /\ pc[r] = "a_credit" =>
            LET k == loc[r].rows[loc[r].j].id IN
            /\ coins' = [coins EXCEPT ![bets[k].user_id] = @ + bets[k].bet_amount * bets[k].odds]
            /\ bets' = bets]_vars

\* a pass has answered, a wager on the winner is won and the balance is the
\* balance after the stake plus stake * odds
C16_Witness ==
  /\ resp.route = "auto"
  /\ resp.status = 200
  /\ resp.resolved = 1
  /\ Len(bets) = 1
  /\ bets[1].status = "won"
  /\ bets[1].selected_team = "Blue"
  /\ coins[1] = InitCoins - bets[1].bet_amount + bets[1].bet_amount * bets[1].odds

\* what a wager commits at placement
Terms(b) == << b.id, b.user_id, b.game_name, b.game_type, b.bet_amount, b.odds, b.selected_team >>

\* C17: a wager's stake, odds, selected side and market name are fixed at
\* placement: no step of any route, a reconciliation pass that moves or
\* deletes the market included, changes them or removes the wager, and the
\* credit on a win is the stake times the odds stored on the wager.
C17_WagerTermsFixed ==
  [][/\ Len(bets') >= Len(bets)
     /\ \A k \in 1..Len(bets) : Terms(bets'[k]) = Terms(bets[k])
     /\ \A r \in Slots : (pc[r] = "a_credit" /\ Acts(r) /\ NoFault) =>
          LET k == loc[r].rows[loc[r].j].id IN
          coins' = [coins EXCEPT ![bets[k].user_id] = @ + bets[k].bet_amount * bets[k].odds]]_vars

\* a wager was placed, a later reconciliation moved its market's price for
\* the selected side, and the wager won and was credited at its own odds
C17_Witness ==
  \E k \in 1..Len(bets) :
    /\ bets[k].status = "won"
    /\ credited[k].auto = 1
    /\ \E g \in games :
         /\ g.external_id = placedOn[k]
         /\ ChooseOdds(g, bets[k].selected_team) # Some(bets[k].odds)
         /\ Val(ChooseOdds(g, bets[k].selected_team)) > bets[k].odds
    /\ coins[bets[k].user_id] = InitCoins - bets[k].bet_amount + bets[k].bet_amount * bets[k].odds

Elems(s) == { s[k] : k \in 1..Len(s) }
\* every outcome an event's bookmakers quote in an h2h market
H2HOutcomes(ev) ==
  UNION { UNION { Elems(m.outcomes) : m \in { x \in Elems(bm.markets) : x.key = "h2h" } } :
          bm \in Elems(ev.bookmakers) }
\* the prices quoted for an outcome name
Quotes(ev, names) == { o.price : o \in { x \in H2HOutcomes(ev) : x.name \in names } }
HomeQuotes(ev) == Quotes(ev, {ev.home_team})
AwayQuotes(ev) == Quotes(ev, {ev.away_team})
DrawQuotes(ev) ==
  Quotes(ev, { o.name : o \in H2HOutcomes(ev) } \cap ({"Draw", "DRAW", "draw"} \ {ev.home_team, ev.away_team}))
Top(S) == CHOOSE x \in S : \A y \in S : y <= x
TopOrNull(S) == IF S = {} THEN Null ELSE Some(Top(S))
BothQuoted(ev) == HomeQuotes(ev) # {} /\ AwayQuotes(ev) # {}
QuotedIn(events) == { k \in 1..Len(events) : BothQuoted(events[k]) }

\* C18: in a reconciliation pass an event is upserted if and only if both
\* primary sides have at least one h2h quote; the stored odds of either side
\* and of the draw are the maximum price quoted for that outcome across all
\* bookmakers, the draw's null when nobody quotes it; every other event is
\* counted as skipped, so upserted + skipped = fetched and activeNow =
\* upserted.
C18_UpsertsBestQuotes ==
  [][\A r \in Slots : (Acts(r) /\ NoFault) =>
       /\ pc[r] = "g_upsert" =>
            LET ev == loc[r].events[loc[r].i] IN
            /\ BothQuoted(ev)
            /\ \E g \in games' :
                 /\ g.external_id = Some(ExternalId(ev.id))
                 /\ g.team1_odds = Some(Top(HomeQuotes(ev)))
                 /\ g.team2_odds = Some(Top(AwayQuotes(ev)))
                 /\ g.draw_odds = TopOrNull(DrawQuotes(ev))
       /\ (pc[r] \in {"g_fetch", "g_upsert", "g_delete"} /\ pc'[r] = "g_select") =>
            /\ loc'[r].oddsSync = "synced"
            /\ loc'[r].fetched = Len(loc'[r].events)
            /\ loc'[r].upserted = Cardinality(QuotedIn(loc'[r].events))
            /\ loc'[r].skippedNoOdds = Len(loc'[r].events) - Cardinality(QuotedIn(loc'[r].events))
            /\ loc'[r].writes >= loc'[r].upserted
            /\ Elems(loc'[r].active) =
                 { ExternalId(loc'[r].events[k].id) : k \in QuotedIn(loc'[r].events) }
       /\ (pc[r] = "g_select" /\ resp'.status = 200 /\ resp'.oddsSync = "synced") =>
            /\ resp'.upserted + resp'.skippedNoOdds = resp'.fetched
            /\ resp'.activeNow = resp'.upserted
            /\ resp'.upserted = loc[r].upserted
            /\ resp'.fetched = loc[r].fetched]_vars

\* a pass over a snapshot with one unpriced and one priced event has
\* answered, and the store holds a market priced from two bookmakers with no
\* draw quoted
C18_Witness ==
  /\ resp.route = "games"
  /\ resp.status = 200
  /\ resp.oddsSync = "synced"
  /\ resp.fetched = 2
  /\ resp.skippedNoOdds = 1
  /\ resp.upserted = 1
  /\ \E g \in games :
       /\ g.external_id = Some("odds_1")
       /\ g.team1_odds = Some(2)
       /\ g.team2_odds = Some(3)
       /\ g.draw_odds = Null

\* a result the pass has nothing to settle with: no market with its
\* external id, or a side's score absent or not a number
Unusable(ev) == \A g \in MarketOf(ev) : ~Scored(ev, g)
InPass(r) == pc[r] \in {"a_fetch", "a_getGame", "a_getBets", "a_update", "a_credit"}

InSync(r) == pc[r] \in {"g_fetch", "g_upsert", "g_delete"}
\* a request's sync fails on this step: no key when it starts, or the fetch
\* or a statement of it throws
SyncFails(r) ==
  \/ pc[r] = "idle" /\ pc'[r] = "g_select" /\ loc'[r].oddsSync = "failed"
  \/ InSync(r) /\ Acts(r) /\ ~NoFault
GateOpen(t, last) == t - last > ODDS_SYNC_COOLDOWN_MS

\* C20: lastOddsSyncAt is written only by a sync that has completed
\* successfully, with the time of that moment, and never decreases; a sync
\* that fails, at the fetch or at a statement, leaves it unchanged, so when
\* the failed request has answered the cooldown is still elapsed and the
\* next refresh request starts a sync again, whatever time has passed.
C20_CooldownStampedOnSuccessOnly ==
  [][/\ lastOddsSyncAt' >= lastOddsSyncAt
     /\ lastOddsSyncAt' # lastOddsSyncAt =>
          /\ lastOddsSyncAt' = now
          /\ NoFault
          /\ \E r \in Slots : InSync(r) /\ pc'[r] = "g_select" /\ loc'[r].oddsSync = "synced"
     /\ \A r \in Slots :
          /\ SyncFails(r) => lastOddsSyncAt' = lastOddsSyncAt /\ GateOpen(now', lastOddsSyncAt')
          /\ (pc[r] = "g_select" /\ loc[r].oddsSync = "failed" /\ Acts(r)) =>
               GateOpen(now', lastOddsSyncAt')
          /\ (pc[r] = "idle" /\ pc'[r] \in {"g_fetch", "g_select"}
                /\ GateOpen(now, lastOddsSyncAt)) =>
               /\ loc'[r].oddsSync # "skipped"
               /\ apiKey # "" => pc'[r] = "g_fetch"
     /\ (GateOpen(now, lastOddsSyncAt) /\ lastOddsSyncAt' = lastOddsSyncAt) =>
          GateOpen(now', lastOddsSyncAt')]_vars

\* a sync succeeded, the cooldown passed, the next sync failed after the key
\* was read and its request has answered: the stamp is the first sync's
C20_Witness ==
  /\ resp.route = "games"
  /\ resp.status = 200
  /\ resp.oddsSync = "failed"
  /\ apiKey # ""
  /\ lastOddsSyncAt = StartTime
  /\ now > lastOddsSyncAt + ODDS_SYNC_COOLDOWN_MS
  /\ games # {}

====
